---- MODULE Spec2Model ----
(***************************************************************************)
(* Model of trabalho_final/workflow_analyzer.py: the n8n workflow          *)
(* validator, the metadata extractor, the two analyzer adapters, the       *)
(* hybrid analyzer (analyze / analyze_batch) and the command (main).       *)
(*                                                                         *)
(* JSON values are modelled by their shape: what Python's `in`, indexing,  *)
(* isinstance, len, truthiness and .get do on them.  A Python exception    *)
(* that no handler catches is modelled by a `raised` field / variable.     *)
(***************************************************************************)
EXTENDS Integers, Sequences, FiniteSets, TLC

(***************************************************************************)
(* Bounds of the model.                                                    *)
(***************************************************************************)
MaxNodes == 2        \* longest 'nodes' list of a document (document spec)
MaxConns == 2        \* most entries of a 'connections' mapping
MaxEntries == 1      \* most entries of one inner connection value
MaxFiles == 2        \* most files discovered in a batch directory
MaxFindings == 1     \* most findings one tool reports

(***************************************************************************)
(* The document universe.                                                  *)
(***************************************************************************)
\* a 'type' value that cannot be a dictionary key (a JSON list or object)
Unhashable == "<unhashable>"

NoNodes == [isList |-> FALSE, items |-> << >>]
NoConnections == [isDict |-> FALSE, vals |-> << >>]

TypeNames == {"http", "unknown"}

\* One element of 'nodes'.  isDict = FALSE is a node that is not a JSON
\* object (a number); the has* fields say which keys an object node holds.
NodeOf(d, i, n, t, ty) ==
    [isDict |-> d, hasId |-> i, hasName |-> n, hasType |-> t, type |-> ty]

Nodes ==
    { NodeOf(FALSE, FALSE, FALSE, FALSE, ""),         \* 1
      NodeOf(TRUE, TRUE, TRUE, TRUE, "http"),          \* {"id":..,"name":..,"type":"http"}
      NodeOf(TRUE, TRUE, FALSE, TRUE, "unknown"),      \* {"id":..,"type":"unknown"}
      NodeOf(TRUE, FALSE, TRUE, FALSE, ""),            \* {"name":..}
      NodeOf(TRUE, TRUE, TRUE, TRUE, Unhashable) }     \* {"id":..,"name":..,"type":[]}

SeqsUpTo(S, n) == UNION { [1..k -> S] : k \in 0..n }

\* The value under 'nodes': a list of nodes, or a value that is not a list
\* (a number: not iterable).
NodesValues(n) ==
    { [isList |-> FALSE, items |-> << >>] }
    \cup { [isList |-> TRUE, items |-> s] : s \in SeqsUpTo(Nodes, n) }

\* One value of the 'connections' mapping: an inner mapping with `size`
\* entries, a list of `size` elements (has a len, is not a mapping), or a
\* number (no len).
ConnValues ==
    { [isDict |-> TRUE, hasLen |-> TRUE, size |-> k] : k \in 0..MaxEntries }
    \cup { [isDict |-> FALSE, hasLen |-> TRUE, size |-> MaxEntries],
           [isDict |-> FALSE, hasLen |-> FALSE, size |-> 0] }

\* The value under 'connections': a mapping (its values, in insertion
\* order) or a value that is not a mapping (a list).
ConnectionsValues(n) ==
    { [isDict |-> FALSE, vals |-> << >>] }
    \cup { [isDict |-> TRUE, vals |-> s] : s \in SeqsUpTo(ConnValues, n) }

\* A parsed document.  top is the JSON type of the top-level value:
\*   "mapping": hasNodes / hasConn say whether the key is present;
\*   "string":  hasNodes / hasConn say whether the text contains the word;
\*   "list":    hasNodes / hasConn say whether the word is an element;
\*   "scalar":  a number, a boolean or null.
\* a key of the top-level mapping: absent, or present with a value
Fields(absent, values) ==
    { [has |-> FALSE, value |-> absent] } \cup { [has |-> TRUE, value |-> v] : v \in values }

MappingDocs(n, c) ==
    { [top |-> "mapping", hasNodes |-> nf.has, nodes |-> nf.value,
       hasConn |-> cf.has, connections |-> cf.value] :
        nf \in Fields(NoNodes, NodesValues(n)),
        cf \in Fields(NoConnections, ConnectionsValues(c)) }

OtherDocs ==
    { [top |-> t, hasNodes |-> hn, nodes |-> NoNodes, hasConn |-> hc, connections |-> NoConnections] :
        t \in {"string", "list"}, hn \in BOOLEAN, hc \in BOOLEAN }
    \cup { [top |-> "scalar", hasNodes |-> FALSE, nodes |-> NoNodes,
            hasConn |-> FALSE, connections |-> NoConnections] }

DocsUpTo(n, c) == MappingDocs(n, c) \cup OtherDocs

Docs == DocsUpTo(MaxNodes, MaxConns)

\* A file on disk as load_workflow sees it: its state, and the document
\* its content parses to when state = "ok".
NoDoc == [top |-> "scalar", hasNodes |-> FALSE, nodes |-> NoNodes,
          hasConn |-> FALSE, connections |-> NoConnections]

LoadFailures == {"missing", "notfile", "badjson", "unreadable"}

FilesOf(docs) ==
    { [state |-> s, doc |-> NoDoc] : s \in LoadFailures }
    \cup { [state |-> "ok", doc |-> d] : d \in docs }

(***************************************************************************)
(* WorkflowValidator.validate_structure                                    *)
(***************************************************************************)
ValidationResult(v, e, w) == [raised |-> FALSE, valid |-> v, errors |-> e, warnings |-> w]

\* an exception left the function: no ValidationResult is returned
Raised == [raised |-> TRUE, valid |-> FALSE, errors |-> << >>, warnings |-> << >>]

\* `key in workflow` raises TypeError when workflow is a number, a boolean
\* or null; hasKey is the answer for a mapping, a string or a list
InRaises(workflow) == workflow.top = "scalar"

\* workflow[key] raises TypeError unless workflow is a mapping
IndexRaises(workflow) == workflow.top # "mapping"

required_node_fields == << "id", "name", "type" >>

NodeHas(node, f) ==
    CASE f = "id" -> node.hasId
      [] f = "name" -> node.hasName
      [] f = "type" -> node.hasType

RECURSIVE FieldWarnings(_, _, _)
FieldWarnings(node, idx, k) ==
    IF k > Len(required_node_fields) THEN << >>
    ELSE (IF NodeHas(node, required_node_fields[k])
            THEN << >>
            ELSE << "Node at index " \o ToString(idx) \o " missing field '"
                    \o required_node_fields[k] \o "'" >>)
         \o FieldWarnings(node, idx, k + 1)

\* the warnings of the loop over enumerate(workflow['nodes']), from the
\* k-th element on (idx = k - 1 is Python's 0-based index)
RECURSIVE NodeWarnings(_, _)
NodeWarnings(items, k) ==
    IF k > Len(items) THEN << >>
    ELSE (IF ~items[k].isDict
            THEN << "Node at index " \o ToString(k - 1) \o " is not an object" >>
            ELSE FieldWarnings(items[k], k - 1, 1))
         \o NodeWarnings(items, k + 1)

MissingNodesError == "Missing required field: 'nodes'"
NodesNotArrayError == "Field 'nodes' must be an array"
NoConnectionsWarning == "Workflow has no 'connections' field"
ConnectionsNotObjectWarning == "Field 'connections' should be an object"

\* NodesCheck that forgets `result.valid = False` for a 'nodes' that is
\* not a list
NodesCheckKeepsValid(workflow) ==
    IF InRaises(workflow) THEN Raised
    ELSE IF ~workflow.hasNodes THEN ValidationResult(FALSE, << MissingNodesError >>, << >>)
    ELSE IF IndexRaises(workflow) THEN Raised
    ELSE IF ~workflow.nodes.isList THEN ValidationResult(TRUE, << NodesNotArrayError >>, << >>)
    ELSE ValidationResult(TRUE, << >>, NodeWarnings(workflow.nodes.items, 1))

\* the 'nodes' part: lines 121-140
NodesCheck(workflow) ==
    IF InRaises(workflow) THEN Raised
    ELSE IF ~workflow.hasNodes THEN ValidationResult(FALSE, << MissingNodesError >>, << >>)
    ELSE IF IndexRaises(workflow) THEN Raised
    ELSE IF ~workflow.nodes.isList THEN ValidationResult(FALSE, << NodesNotArrayError >>, << >>)
    ELSE ValidationResult(TRUE, << >>, NodeWarnings(workflow.nodes.items, 1))

\* the 'connections' part: lines 143-146
ConnectionsCheck(workflow) ==
    IF InRaises(workflow) THEN Raised
    ELSE IF ~workflow.hasConn THEN ValidationResult(TRUE, << >>, << NoConnectionsWarning >>)
    ELSE IF IndexRaises(workflow) THEN Raised
    ELSE IF ~workflow.connections.isDict
           THEN ValidationResult(TRUE, << >>, << ConnectionsNotObjectWarning >>)
    ELSE ValidationResult(TRUE, << >>, << >>)

validate_structure(workflow) ==
    LET n == NodesCheck(workflow)
        c == ConnectionsCheck(workflow)
    IN  IF n.raised \/ c.raised THEN Raised
        ELSE ValidationResult(n.valid, n.errors, n.warnings \o c.warnings)

(***************************************************************************)
(* WorkflowValidator.load_workflow                                         *)
(***************************************************************************)
\* (workflow, result): hasDoc = FALSE is Python's None for the workflow
LoadResult(hd, d, r) ==
    [raised |-> r.raised, hasDoc |-> hd, doc |-> d,
     valid |-> r.valid, errors |-> r.errors, warnings |-> r.warnings]

load_workflow(file) ==
    CASE file.state = "missing" ->
            LoadResult(FALSE, NoDoc, ValidationResult(FALSE, << "File not found" >>, << >>))
      [] file.state = "notfile" ->
            LoadResult(FALSE, NoDoc, ValidationResult(FALSE, << "Path is not a file" >>, << >>))
      [] file.state = "badjson" ->
            LoadResult(FALSE, NoDoc, ValidationResult(FALSE, << "Invalid JSON syntax" >>, << >>))
      [] file.state = "unreadable" ->
            LoadResult(FALSE, NoDoc, ValidationResult(FALSE, << "Cannot read file" >>, << >>))
      [] OTHER ->
            LET validation == validate_structure(file.doc)
            IN  IF validation.raised THEN LoadResult(FALSE, NoDoc, Raised)
                ELSE IF ~validation.valid THEN LoadResult(TRUE, file.doc, validation)
                ELSE LoadResult(TRUE, file.doc, ValidationResult(TRUE, << >>, << >>))

(***************************************************************************)
(* WorkflowValidator.extract_metadata                                      *)
(***************************************************************************)
NoTypes == [t \in {} |-> 0]

\* node_types[node_type] = node_types.get(node_type, 0) + 1
Bump(node_types, node_type) ==
    [t \in DOMAIN node_types \cup {node_type} |->
        (IF t \in DOMAIN node_types THEN node_types[t] ELSE 0)
        + (IF t = node_type THEN 1 ELSE 0)]

\* node.get('type', 'unknown')
NodeType(node) == IF node.hasType THEN node.type ELSE "unknown"

\* the loop of lines 163-165 from the k-th node on; raised when a node has
\* no .get (it is not an object) or its type cannot be a dictionary key
RECURSIVE CountTypes(_, _, _)
CountTypes(items, k, node_types) ==
    IF k > Len(items) THEN [raised |-> FALSE, types |-> node_types]
    ELSE IF ~items[k].isDict \/ NodeType(items[k]) = Unhashable
           THEN [raised |-> TRUE, types |-> node_types]
    ELSE CountTypes(items, k + 1, Bump(node_types, NodeType(items[k])))

\* Counted without the isinstance filter
CountedAnyValue(conns) == TRUE

\* len(conns) for conns in connections.values() if isinstance(conns, dict)
Counted(conns) == conns.isDict

RECURSIVE SumConnections(_, _)
SumConnections(vals, k) ==
    IF k > Len(vals) THEN 0
    ELSE (IF Counted(vals[k]) THEN vals[k].size ELSE 0) + SumConnections(vals, k + 1)

\* a generator element with no len() makes sum() raise TypeError
RECURSIVE SumRaises(_, _)
SumRaises(vals, k) ==
    IF k > Len(vals) THEN FALSE
    ELSE (Counted(vals[k]) /\ ~vals[k].hasLen) \/ SumRaises(vals, k + 1)

WorkflowMetadata(nc, nt, hc, cc) ==
    [raised |-> FALSE, node_count |-> nc, node_types |-> nt,
     has_connections |-> hc, connections_count |-> cc]

MetadataRaised ==
    [raised |-> TRUE, node_count |-> 0, node_types |-> NoTypes,
     has_connections |-> FALSE, connections_count |-> 0]

extract_metadata(workflow) ==
    IF workflow.top # "mapping" THEN MetadataRaised      \* no .get
    ELSE IF workflow.hasNodes /\ ~workflow.nodes.isList THEN MetadataRaised  \* not iterable
    ELSE LET items == IF workflow.hasNodes THEN workflow.nodes.items ELSE << >>
             counted == CountTypes(items, 1, NoTypes)
         IN  IF counted.raised THEN MetadataRaised
             ELSE IF workflow.hasConn /\ ~workflow.connections.isDict
                    THEN MetadataRaised                  \* no .values
             ELSE LET vals == IF workflow.hasConn THEN workflow.connections.vals ELSE << >>
                  IN  IF SumRaises(vals, 1) THEN MetadataRaised
                      ELSE WorkflowMetadata(Len(items), counted.types,
                                            workflow.hasConn, SumConnections(vals, 1))

(***************************************************************************)
(* Findings: the JSON value a tool's output holds where a list of findings *)
(* is expected.  A list keeps the shape of each element ("record": a JSON  *)
(* object, "other": anything else); a value that is not a list is a string *)
(* or an object of `size` entries (hasLen) or a number / null (no len).    *)
(***************************************************************************)
FindingsList(items) ==
    [isList |-> TRUE, hasLen |-> TRUE, size |-> Len(items), truthy |-> Len(items) > 0,
     items |-> items]

Sized(n) == [isList |-> FALSE, hasLen |-> TRUE, size |-> n, truthy |-> n > 0, items |-> << >>]

Unsized(t) == [isList |-> FALSE, hasLen |-> FALSE, size |-> 0, truthy |-> t, items |-> << >>]

EmptyFindings == FindingsList(<< >>)

Records(n) == [k \in 1..n |-> "record"]

\* lists of findings that are objects, and a list whose element is not one
FindingLists ==
    { FindingsList(Records(n)) : n \in 0..MaxFindings } \cup { FindingsList(<< "other" >>) }

\* what a 'findings' field can hold: a list, "" or {}, "x" or {"a":..},
\* null or 0, a non-zero number
FindingsValues ==
    FindingLists \cup { Sized(n) : n \in 0..1 } \cup { Unsized(t) : t \in BOOLEAN }

(***************************************************************************)
(* AgenticRadarExecutor                                                    *)
(***************************************************************************)
\* What one subprocess run and the artifacts it leaves can be: proc is how
\* subprocess.run ends, code the exit code, json the <name>.json artifact
\* and html whether <name>.html exists.
RadarArtifacts ==
    { [kind |-> k, value |-> EmptyFindings] : k \in {"absent", "unparsable", "dict", "scalar"} }
    \cup { [kind |-> "findings", value |-> v] : v \in FindingsValues }
    \cup { [kind |-> "list", value |-> v] : v \in FindingLists }

ProcEnds == {"exit", "timeout", "notfound", "oserror"}

\* what a failing subprocess leaves on its standard error
Stderrs == {"", "usage: bad arguments"}

RadarRuns ==
    { [proc |-> p, code |-> 0, stderr |-> "",
       json |-> [kind |-> "absent", value |-> EmptyFindings], html |-> FALSE] :
        p \in ProcEnds \ {"exit"} }
    \cup { [proc |-> "exit", code |-> c, stderr |-> e,
            json |-> [kind |-> "absent", value |-> EmptyFindings], html |-> TRUE] :
             c \in 1..2, e \in Stderrs }
    \cup { [proc |-> "exit", code |-> 0, stderr |-> "", json |-> j, html |-> h] :
             j \in RadarArtifacts, h \in BOOLEAN }

AdapterResult(f, s, e) == [findings |-> f, success |-> s, error |-> e]

SyntheticFinding == "record"

\* _parse_output: raised when .append is called on a value that is not a list
RadarParse(json, html) ==
    LET findings ==
            IF json.kind \in {"findings", "list"} THEN json.value ELSE EmptyFindings
    IN  IF html /\ ~findings.truthy
          THEN IF findings.isList
                 THEN [raised |-> FALSE,
                       findings |-> FindingsList(Append(findings.items, SyntheticFinding))]
                 ELSE [raised |-> TRUE, findings |-> EmptyFindings]
          ELSE [raised |-> FALSE, findings |-> findings]

\* RadarSuccessCodes that takes Semgrep's convention
RadarSuccessCodesWithOne == {0, 1}

RadarSuccessCodes == {0}

AgenticRadarRun(run) ==
    CASE run.proc = "timeout" ->
            AdapterResult(EmptyFindings, FALSE, "Agentic Radar execution timed out")
      [] run.proc = "notfound" ->
            AdapterResult(EmptyFindings, FALSE, "Agentic Radar not found. Is it installed?")
      [] run.proc = "oserror" ->
            AdapterResult(EmptyFindings, FALSE, "Agentic Radar execution error")
      [] OTHER ->
            IF run.code \notin RadarSuccessCodes
              THEN AdapterResult(EmptyFindings, FALSE, "Agentic Radar failed: " \o run.stderr)
              ELSE LET parsed == RadarParse(run.json, run.html)
                   IN  IF parsed.raised
                         THEN AdapterResult(EmptyFindings, FALSE, "Agentic Radar execution error")
                         ELSE AdapterResult(parsed.findings, TRUE, "")

(***************************************************************************)
(* SemgrepExecutor                                                         *)
(***************************************************************************)
\* stdout of the subprocess: text that is not JSON, a JSON value that is
\* not an object ("scalar": `in` raises; "list": no 'results'), an object
\* without 'results', or an object whose 'results' is a list of entries
\* ("record" or "other") or a number ("notiterable").
SemgrepOutputs ==
    { [kind |-> k, results |-> << >>] :
        k \in {"unparsable", "scalar", "list", "dict", "notiterable"} }
    \cup { [kind |-> "results", results |-> Records(n)] : n \in 0..MaxFindings }
    \cup { [kind |-> "results", results |-> << "other" >>] }

SemgrepRuns ==
    { [rules |-> FALSE, proc |-> "exit", code |-> 0, stderr |-> "",
       stdout |-> [kind |-> "dict", results |-> << >>]] }
    \cup { [rules |-> TRUE, proc |-> p, code |-> 0, stderr |-> "",
            stdout |-> [kind |-> "dict", results |-> << >>]] : p \in ProcEnds \ {"exit"} }
    \cup { [rules |-> TRUE, proc |-> "exit", code |-> 2, stderr |-> e,
            stdout |-> [kind |-> "unparsable", results |-> << >>]] : e \in Stderrs }
    \cup { [rules |-> TRUE, proc |-> "exit", code |-> c, stderr |-> "", stdout |-> o] :
             c \in 0..1, o \in SemgrepOutputs }

\* every entry of 'results' becomes one normalized finding (a record)
Normalized(results) == [k \in 1..Len(results) |-> "record"]

\* _parse_output: only json.JSONDecodeError is handled there
SemgrepParse(stdout) ==
    CASE stdout.kind = "unparsable" -> [raised |-> FALSE, findings |-> EmptyFindings]
      [] stdout.kind \in {"scalar", "notiterable"} -> [raised |-> TRUE, findings |-> EmptyFindings]
      [] stdout.kind \in {"list", "dict"} -> [raised |-> FALSE, findings |-> EmptyFindings]
      [] OTHER ->
            IF \E k \in 1..Len(stdout.results) : stdout.results[k] = "other"
              THEN [raised |-> TRUE, findings |-> EmptyFindings]
              ELSE [raised |-> FALSE, findings |-> FindingsList(Normalized(stdout.results))]

SemgrepSuccessCodes == {0, 1}

SemgrepRun(run) ==
    IF ~run.rules THEN AdapterResult(EmptyFindings, FALSE, "Semgrep rules not found: rules.yaml")
    ELSE CASE run.proc = "timeout" ->
                AdapterResult(EmptyFindings, FALSE, "Semgrep execution timed out")
           [] run.proc = "notfound" ->
                AdapterResult(EmptyFindings, FALSE, "Semgrep not found. Is it installed?")
           [] run.proc = "oserror" ->
                AdapterResult(EmptyFindings, FALSE, "Semgrep execution error")
           [] OTHER ->
                IF run.code \notin SemgrepSuccessCodes
                  THEN AdapterResult(EmptyFindings, FALSE, "Semgrep failed: " \o run.stderr)
                  ELSE LET parsed == SemgrepParse(run.stdout)
                       IN  IF parsed.raised
                             THEN AdapterResult(EmptyFindings, FALSE, "Semgrep execution error")
                             ELSE AdapterResult(parsed.findings, TRUE, "")

(***************************************************************************)
(* State.                                                                  *)
(***************************************************************************)
VARIABLES
    \* the validator and the extractor applied to one file
    dfile,            \* the file given to load_workflow
    dload,            \* << >> or << the result of load_workflow >>
    dvalid,           \* << >> or << the result of validate_structure >>
    dmeta,            \* << >> or << the result of extract_metadata >>
    \* the two adapters applied to one subprocess run each
    arun,             \* the run AgenticRadarExecutor.run meets
    srun,             \* the run SemgrepExecutor.run meets
    ares,             \* << >> or << what AgenticRadarExecutor.run returned >>
    sres,             \* << >> or << what SemgrepExecutor.run returned >>
    \* the command
    pc,               \* where main is
    mode,             \* "single" (args.workflow) or "batch" (args.batch)
    format,           \* args.format ("" until main reads it at line 669)
    workflow_files,   \* the paths analyze is to be called on, in order
    next,             \* index in workflow_files of the next path
    cur,              \* the path of the analyze call in progress (0: none yet)
    loaded,           \* per path: outcome of load_workflow in analyze
    workflow,         \* analyze's local `workflow`: << >> (None) or << document >>
    returned,         \* per path: how analyze ended
    metadata,         \* analyze's local `metadata`
    radar_result,     \* what agentic_executor.run returned in this analyze call
    semgrep_result,   \* what semgrep_executor.run returned in this analyze call
    radar_findings,   \* analyze's local `radar_findings`
    batch_results,    \* analyze_batch's local `results`
    results,          \* main's `results`
    trace,            \* calls made so far: << "analyze" | "radar" | "semgrep", path >>
    diag,             \* diagnostics printed by the analyze call in progress
    raised,           \* an exception reached the top of main
    exit_status,      \* the status main ends with (-1 while running)
    json_report,      \* "none", "partial" or "complete"
    md_report

docVars == << dfile, dload, dvalid, dmeta >>

adapterVars == << arun, srun, ares, sres >>

mainVars == << pc, mode, format, workflow_files, next, cur, loaded, workflow, returned, metadata,
               radar_result, semgrep_result, radar_findings, batch_results, results,
               trace, diag, raised, exit_status, json_report, md_report >>

vars == << dfile, dload, dvalid, dmeta, arun, srun, ares, sres,
           pc, mode, format, workflow_files, next, cur, loaded, workflow, returned, metadata,
           radar_result, semgrep_result, radar_findings, batch_results, results,
           trace, diag, raised, exit_status, json_report, md_report >>

Paths == 1..MaxFiles

Formats == {"json", "markdown", "both"}

NoResult == AdapterResult(EmptyFindings, FALSE, "")

NoMetadata == WorkflowMetadata(0, NoTypes, FALSE, 0)

\* the document part at rest (the command's specification leaves it alone)
DocIdle ==
    /\ dfile = [state |-> "missing", doc |-> NoDoc]
    /\ dload = << >>
    /\ dvalid = << >>
    /\ dmeta = << >>

\* the adapter part at rest
AdapterIdle ==
    /\ arun = [proc |-> "timeout", code |-> 0, stderr |-> "",
               json |-> [kind |-> "absent", value |-> EmptyFindings], html |-> FALSE]
    /\ srun = [rules |-> FALSE, proc |-> "exit", code |-> 0, stderr |-> "",
               stdout |-> [kind |-> "dict", results |-> << >>]]
    /\ ares = << >>
    /\ sres = << >>

\* the command before main starts; m = "off" when the command is not run
MainInit(m) ==
    /\ pc = IF m = "off" THEN "off" ELSE "start"
    /\ mode = m
    /\ format = ""
    /\ workflow_files = << >>
    /\ next = 1
    /\ cur = 0
    /\ loaded = [p \in Paths |-> "pending"]
    /\ workflow = << >>
    /\ returned = [p \in Paths |-> "pending"]
    /\ metadata = NoMetadata
    /\ radar_result = NoResult
    /\ semgrep_result = NoResult
    /\ radar_findings = EmptyFindings
    /\ batch_results = << >>
    /\ results = << >>
    /\ trace = << >>
    /\ diag = << >>
    /\ raised = FALSE
    /\ exit_status = -1
    /\ json_report = "none"
    /\ md_report = "none"

(***************************************************************************)
(* The validator and the extractor on one file (specification DocSpec).    *)
(***************************************************************************)
DocInit ==
    /\ dfile \in FilesOf(Docs)
    /\ dload = << >>
    /\ dvalid = << >>
    /\ dmeta = << >>
    /\ AdapterIdle
    /\ MainInit("off")

Load ==
    /\ dload = << >>
    /\ dload' = << load_workflow(dfile) >>
    /\ UNCHANGED << dfile, dvalid, dmeta >>
    /\ UNCHANGED adapterVars
    /\ UNCHANGED mainVars

\* validate_structure on the parsed content of the file
Validate ==
    /\ dfile.state = "ok"
    /\ dvalid = << >>
    /\ dvalid' = << validate_structure(dfile.doc) >>
    /\ UNCHANGED << dfile, dload, dmeta >>
    /\ UNCHANGED adapterVars
    /\ UNCHANGED mainVars

\* extract_metadata on the parsed content of the file
Extract ==
    /\ dfile.state = "ok"
    /\ dmeta = << >>
    /\ dmeta' = << extract_metadata(dfile.doc) >>
    /\ UNCHANGED << dfile, dload, dvalid >>
    /\ UNCHANGED adapterVars
    /\ UNCHANGED mainVars

DocNext == Load \/ Validate \/ Extract

DocSpec == DocInit /\ [][DocNext]_vars

(***************************************************************************)
(* The two adapters on one subprocess run each (specification AdapterSpec).*)
(***************************************************************************)
AdapterInit ==
    /\ arun \in RadarRuns
    /\ srun \in SemgrepRuns
    /\ ares = << >>
    /\ sres = << >>
    /\ DocIdle
    /\ MainInit("off")

\* AgenticRadarExecutor.run on the run arun
RadarRun ==
    /\ ares = << >>
    /\ ares' = << AgenticRadarRun(arun) >>
    /\ UNCHANGED << arun, srun, sres >>
    /\ UNCHANGED docVars
    /\ UNCHANGED mainVars

\* SemgrepExecutor.run on the run srun
SemgrepScan ==
    /\ sres = << >>
    /\ sres' = << SemgrepRun(srun) >>
    /\ UNCHANGED << arun, srun, ares >>
    /\ UNCHANGED docVars
    /\ UNCHANGED mainVars

AdapterNext == RadarRun \/ SemgrepScan

AdapterSpec == AdapterInit /\ [][AdapterNext]_vars

(***************************************************************************)
(* The command: main, analyze_batch, analyze (specification Spec).         *)
(***************************************************************************)
MapDoc(hn, nv, hc, cv) ==
    [top |-> "mapping", hasNodes |-> hn, nodes |-> nv, hasConn |-> hc, connections |-> cv]

ListOf(items) == [isList |-> TRUE, items |-> items]

MappingOf(vals) == [isDict |-> TRUE, vals |-> vals]

FullNode == NodeOf(TRUE, TRUE, TRUE, TRUE, "http")

\* The workflow files the command is run on: every way load_workflow can
\* fail, and documents of every top-level type, valid and invalid, with
\* and without warnings.
SampleDocs ==
    { \* {"nodes":[{"id":..,"name":..,"type":"http"}],"connections":{"a":{"main":..}}}
      MapDoc(TRUE, ListOf(<< FullNode >>), TRUE,
             MappingOf(<< [isDict |-> TRUE, hasLen |-> TRUE, size |-> 1] >>)),
      \* {"nodes":[{"id":..,"name":..}]}: a node without 'type', no 'connections'
      MapDoc(TRUE, ListOf(<< NodeOf(TRUE, TRUE, TRUE, FALSE, "") >>), FALSE, NoConnections),
      \* {"nodes":[1]}: a node that is not an object
      MapDoc(TRUE, ListOf(<< NodeOf(FALSE, FALSE, FALSE, FALSE, "") >>), TRUE, MappingOf(<< >>)),
      \* {"nodes":[],"connections":[]}: 'connections' is not a mapping
      MapDoc(TRUE, ListOf(<< >>), TRUE, NoConnections),
      \* {}: no 'nodes'
      MapDoc(FALSE, NoNodes, FALSE, NoConnections),
      \* {"nodes":3,"connections":{}}: 'nodes' is not a list
      MapDoc(TRUE, NoNodes, TRUE, MappingOf(<< >>)),
      \* 5
      NoDoc,
      \* "abc"
      [top |-> "string", hasNodes |-> FALSE, nodes |-> NoNodes,
       hasConn |-> FALSE, connections |-> NoConnections],
      \* ["nodes"]
      [top |-> "list", hasNodes |-> TRUE, nodes |-> NoNodes,
       hasConn |-> FALSE, connections |-> NoConnections] }

SampleFiles == FilesOf(SampleDocs)

\* Path.exists / Path.is_dir / Path.glob on the batch directory: matching
\* lists the paths that match the pattern, in enumeration order
\* (a path is named by its position in the enumeration)
Directories ==
    { [state |-> st, matching |-> << >>] : st \in {"missing", "notdir"} }
    \cup { [state |-> "dir", matching |-> [k \in 1..n |-> k]] : n \in 0..MaxFiles }

scan_directory(directory) ==
    IF directory.state = "missing" THEN << >>
    ELSE IF directory.state = "notdir" THEN << >>
    ELSE directory.matching

AnalysisResult(path, md, radar, semgrep) ==
    [workflow_path |-> path, metadata |-> md,
     agentic_radar_findings |-> radar, semgrep_findings |-> semgrep,
     total_findings |-> radar.size + semgrep.size]

Line(level, text) == [level |-> level, text |-> text]

Lines(level, texts) == [k \in 1..Len(texts) |-> Line(level, texts[k])]

Init ==
    /\ DocIdle
    /\ AdapterIdle
    /\ \E m \in {"single", "batch"} : MainInit(m)

\* an exception propagates out of main: the interpreter prints the
\* traceback and the process ends with status 1
Crash ==
    /\ pc' = "exit"
    /\ raised' = TRUE
    /\ exit_status' = 1

\* main, lines 649-656 up to the first call of analyze: in batch mode
\* analyze_batch scans the directory
Start ==
    /\ pc = "start"
    /\ \/ /\ mode = "single"
          /\ workflow_files' = << 1 >>
       \/ /\ mode = "batch"
          /\ \E d \in Directories : workflow_files' = scan_directory(d)
    /\ pc' = "loop"
    /\ UNCHANGED << mode, format, next, cur, loaded, workflow, returned, metadata, radar_result,
                    semgrep_result, radar_findings, batch_results, results, trace, diag,
                    raised, exit_status, json_report, md_report >>
    /\ UNCHANGED docVars
    /\ UNCHANGED adapterVars

\* which path the loop of analyze_batch takes next
NextPath == workflow_files[next]

\* ValidationFailed that tests `workflow is None` instead
ValidationFailedWithoutDocument(lr) == ~lr.hasDoc

\* `if not validation.valid:` (line 410)
ValidationFailed(lr) == ~lr.valid

LoadStatus(lr) == IF lr.raised THEN "raised" ELSE IF lr.valid THEN "valid" ELSE "invalid"

\* analyze, lines 404-427: load, validate, print the diagnostics, extract
AnalyzeLoad ==
    /\ pc = "loop"
    /\ next <= Len(workflow_files)
    /\ \E file \in SampleFiles :
        LET path == NextPath
            lr == load_workflow(file)
            md == extract_metadata(lr.doc)
        IN  /\ cur' = path
            /\ trace' = Append(trace, << "analyze", path >>)
            /\ loaded' = [loaded EXCEPT ![path] = LoadStatus(lr)]
            /\ workflow' = IF lr.hasDoc THEN << lr.doc >> ELSE << >>
            /\ radar_result' = NoResult
            /\ semgrep_result' = NoResult
            /\ radar_findings' = EmptyFindings
            /\ IF lr.raised
                 THEN /\ Crash
                      /\ returned' = [returned EXCEPT ![path] = "raised"]
                      /\ diag' = << >>
                      /\ UNCHANGED << next, metadata >>
               ELSE IF ValidationFailed(lr)
                 THEN /\ returned' = [returned EXCEPT ![path] = "none"]
                      /\ diag' = Lines("ERROR", lr.errors)
                      /\ next' = next + 1
                      /\ UNCHANGED << pc, raised, exit_status, metadata >>
               ELSE IF md.raised
                 THEN /\ Crash
                      /\ returned' = [returned EXCEPT ![path] = "raised"]
                      /\ diag' = Lines("WARNING", lr.warnings)
                      /\ UNCHANGED << next, metadata >>
               ELSE   /\ diag' = Lines("WARNING", lr.warnings)
                      /\ metadata' = md
                      /\ pc' = "radar"
                      /\ UNCHANGED << next, returned, raised, exit_status >>
    /\ UNCHANGED << mode, format, workflow_files, batch_results, results,
                    json_report, md_report >>
    /\ UNCHANGED docVars
    /\ UNCHANGED adapterVars

\* analyze, lines 429-437: run Agentic Radar; len(radar_findings) is
\* evaluated for the progress message when the adapter reports success
RunRadar ==
    /\ pc = "radar"
    /\ \E run \in RadarRuns :
        LET r == AgenticRadarRun(run)
        IN  /\ radar_result' = r
            /\ trace' = Append(trace, << "radar", cur >>)
            /\ IF ~r.success
                 THEN /\ radar_findings' = EmptyFindings
                      /\ pc' = "semgrep"
                      /\ UNCHANGED << returned, raised, exit_status >>
               ELSE IF ~r.findings.hasLen
                 THEN /\ Crash
                      /\ radar_findings' = r.findings
                      /\ returned' = [returned EXCEPT ![cur] = "raised"]
               ELSE   /\ radar_findings' = r.findings
                      /\ pc' = "semgrep"
                      /\ UNCHANGED << returned, raised, exit_status >>
    /\ UNCHANGED << mode, format, workflow_files, next, cur, loaded, workflow, metadata, semgrep_result,
                    batch_results, results, diag, json_report, md_report >>
    /\ UNCHANGED docVars
    /\ UNCHANGED adapterVars

\* analyze, lines 439-464, and the loop body of analyze_batch, lines 482-483:
\* run Semgrep, build the AnalysisResult, append it
RunSemgrep ==
    /\ pc = "semgrep"
    /\ \E run \in SemgrepRuns :
        LET r == SemgrepRun(run)
            semgrep_findings == IF ~r.success THEN EmptyFindings ELSE r.findings
        IN  /\ semgrep_result' = r
            /\ batch_results' = Append(batch_results,
                    AnalysisResult(cur, metadata, radar_findings, semgrep_findings))
    /\ trace' = Append(trace, << "semgrep", cur >>)
    /\ returned' = [returned EXCEPT ![cur] = "record"]
    /\ next' = next + 1
    /\ pc' = "loop"
    /\ UNCHANGED << mode, format, workflow_files, cur, loaded, workflow, metadata, radar_result,
                    radar_findings, results, diag, raised, exit_status, json_report, md_report >>
    /\ UNCHANGED docVars
    /\ UNCHANGED adapterVars

\* `if args.format in ['json', 'both']:` (line 669)
JsonSelected(fmt) == fmt \in {"json", "both"}

\* MarkdownSelected that forgets the 'markdown' choice
MarkdownSelectedWithBoth(fmt) == fmt = "both"

\* `if args.format in ['markdown', 'both']:` (line 674)
MarkdownSelected(fmt) == fmt \in {"markdown", "both"}

AfterJson(fmt) == IF MarkdownSelected(fmt) THEN "markdown" ELSE "summary"

AfterCollect(fmt) == IF JsonSelected(fmt) THEN "json" ELSE AfterJson(fmt)

\* main, lines 652-669: the analysis returns its list (the locals of the
\* last analyze call, kept until here, are gone); without results main
\* returns 1, otherwise it goes on to the reports args.format selects
Collect ==
    /\ pc = "loop"
    /\ next > Len(workflow_files)
    /\ results' = batch_results
    /\ metadata' = NoMetadata
    /\ radar_result' = NoResult
    /\ semgrep_result' = NoResult
    /\ radar_findings' = EmptyFindings
    /\ diag' = << >>
    /\ workflow' = << >>
    /\ IF batch_results = << >>
         THEN /\ pc' = "exit"
              /\ exit_status' = 1
              /\ UNCHANGED format
         ELSE /\ \E f \in Formats :
                    /\ format' = f
                    /\ pc' = AfterCollect(f)
              /\ UNCHANGED exit_status
    /\ UNCHANGED << mode, workflow_files, next, cur, loaded, returned,
                    batch_results, trace, raised, json_report, md_report >>
    /\ UNCHANGED docVars
    /\ UNCHANGED adapterVars

\* main, lines 669-672, generate_json_report
GenerateJson ==
    /\ pc = "json"
    /\ json_report' = "complete"
    /\ pc' = AfterJson(format)
    /\ UNCHANGED << mode, format, workflow_files, next, cur, loaded, workflow, returned, metadata,
                    radar_result, semgrep_result, radar_findings, batch_results, results,
                    trace, diag, raised, exit_status, md_report >>
    /\ UNCHANGED docVars
    /\ UNCHANGED adapterVars

\* iterating the findings and calling .get on each: AttributeError on an
\* element that is not an object (the characters of a string, the keys of
\* an object, a non-object list element)
GetRaises(findings) ==
    IF findings.isList
      THEN \E k \in 1..Len(findings.items) : findings.items[k] # "record"
      ELSE findings.size > 0

\* main, lines 674-677, generate_markdown_report
GenerateMarkdown ==
    /\ pc = "markdown"
    /\ IF \E k \in 1..Len(results) : GetRaises(results[k].agentic_radar_findings)
         THEN /\ md_report' = "partial"
              /\ Crash
         ELSE /\ md_report' = "complete"
              /\ pc' = "summary"
              /\ UNCHANGED << raised, exit_status >>
    /\ UNCHANGED << mode, format, workflow_files, next, cur, loaded, workflow, returned, metadata,
                    radar_result, semgrep_result, radar_findings, batch_results, results,
                    trace, diag, json_report >>
    /\ UNCHANGED docVars
    /\ UNCHANGED adapterVars

\* main, lines 679-687: the summary, return 0
Summary ==
    /\ pc = "summary"
    /\ pc' = "exit"
    /\ exit_status' = 0
    /\ UNCHANGED << mode, format, workflow_files, next, cur, loaded, workflow, returned, metadata,
                    radar_result, semgrep_result, radar_findings, batch_results, results,
                    trace, diag, raised, json_report, md_report >>
    /\ UNCHANGED docVars
    /\ UNCHANGED adapterVars

Next ==
    \/ Start
    \/ AnalyzeLoad
    \/ RunRadar
    \/ RunSemgrep
    \/ Collect
    \/ GenerateJson
    \/ GenerateMarkdown
    \/ Summary

Spec == Init /\ [][Next]_vars

(***************************************************************************)
(* Properties of the validator and the extractor (checked under DocSpec).  *)
(***************************************************************************)
\* the sum of f over the set S of its arguments
RECURSIVE SumOver(_, _)
SumOver(f, S) ==
    IF S = {} THEN 0
    ELSE LET t == CHOOSE x \in S : TRUE IN f[t] + SumOver(f, S \ {t})

\* the sum of the counts of a node_types dictionary
SumCounts(node_types) == SumOver(node_types, DOMAIN node_types)

LoadReturned == dload # << >> /\ ~dload[1].raised

ValidateReturned == dvalid # << >> /\ ~dvalid[1].raised

ExtractCalled == dmeta # << >>

ExtractReturned == dmeta # << >> /\ ~dmeta[1].raised

\* C5: every ValidationResult that load_workflow or validate_structure
\* returns has valid = TRUE exactly when its errors are empty, whatever its
\* warnings; a document whose 'nodes' is absent or not a list is invalid
\* with at least one error; a file that is missing, not a regular file or
\* not parsable gives valid = FALSE, exactly one error and no document.
C5_ValidIffNoErrors ==
    /\ LoadReturned => (dload[1].valid <=> dload[1].errors = << >>)
    /\ ValidateReturned => (dvalid[1].valid <=> dvalid[1].errors = << >>)
    /\ (ValidateReturned /\ (~dfile.doc.hasNodes \/ ~dfile.doc.nodes.isList))
          => (~dvalid[1].valid /\ Len(dvalid[1].errors) >= 1)
    /\ (LoadReturned /\ dfile.state = "ok"
          /\ (~dfile.doc.hasNodes \/ ~dfile.doc.nodes.isList))
          => (~dload[1].valid /\ Len(dload[1].errors) >= 1)
    /\ (dload # << >> /\ dfile.state \in LoadFailures)
          => (~dload[1].raised /\ ~dload[1].valid /\ Len(dload[1].errors) = 1
              /\ ~dload[1].hasDoc)

\* C5 witness: an invalid outcome that carries an error and a warning, for a
\* document whose 'nodes' is not a list, next to the load of the same file
C5_Witness ==
    /\ ValidateReturned /\ LoadReturned
    /\ dfile.doc.top = "mapping" /\ dfile.doc.hasNodes /\ ~dfile.doc.nodes.isList
    /\ ~dvalid[1].valid
    /\ Len(dvalid[1].errors) = 1
    /\ Len(dvalid[1].warnings) = 1

\* a document that validate_structure accepts
ValidDocument == ValidateReturned /\ dvalid[1].valid

\* C7: for every valid document extract_metadata returns, node_count is
\* the length of 'nodes', the node_types counts sum to node_count, and the
\* nodes without 'type' are counted under "unknown".
C7_ExtractTotalOnValid ==
    (ValidDocument /\ ExtractCalled) =>
        LET items == dfile.doc.nodes.items
            untyped == { k \in 1..Len(items) : items[k].isDict /\ ~items[k].hasType }
        IN  /\ ~dmeta[1].raised
            /\ dmeta[1].node_count = Len(items)
            /\ SumCounts(dmeta[1].node_types) = dmeta[1].node_count
            /\ (untyped # {} =>
                  /\ "unknown" \in DOMAIN dmeta[1].node_types
                  /\ dmeta[1].node_types["unknown"] >= Cardinality(untyped))

\* the sum of the sizes of the values that are mappings
ExpectedConnections(vals) ==
    LET mappings == { k \in 1..Len(vals) : vals[k].isDict }
    IN  SumOver([k \in mappings |-> vals[k].size], mappings)

\* the nodes give extract_metadata no reason to raise
NodesExtractable(doc) ==
    \/ ~doc.hasNodes
    \/ /\ doc.nodes.isList
       /\ \A k \in 1..Len(doc.nodes.items) :
            doc.nodes.items[k].isDict /\ NodeType(doc.nodes.items[k]) # Unhashable

ConnectionsIsMapping(doc) == doc.top = "mapping" /\ doc.hasConn /\ doc.connections.isDict

\* C8: for every 'connections' mapping, connections_count is the sum of
\* the sizes of exactly the values that are mappings; the other values add
\* 0 and never make extract_metadata raise; has_connections is TRUE
\* exactly when the document has the 'connections' key.
C8_ConnectionsCount ==
    /\ (ExtractReturned /\ ConnectionsIsMapping(dfile.doc))
          => dmeta[1].connections_count = ExpectedConnections(dfile.doc.connections.vals)
    /\ (ExtractCalled /\ ConnectionsIsMapping(dfile.doc) /\ NodesExtractable(dfile.doc))
          => ~dmeta[1].raised
    /\ ExtractReturned => (dmeta[1].has_connections <=> dfile.doc.hasConn)

\* C8 witness: metadata returned for a 'connections' mapping that holds a
\* non-empty mapping next to a value that is not a mapping
C8_Witness ==
    /\ ExtractReturned
    /\ ConnectionsIsMapping(dfile.doc)
    /\ \E a, b \in 1..Len(dfile.doc.connections.vals) :
          /\ dfile.doc.connections.vals[a].isDict
          /\ dfile.doc.connections.vals[a].size > 0
          /\ ~dfile.doc.connections.vals[b].isDict
    /\ dmeta[1].connections_count > 0

(***************************************************************************)
(* Properties of the command (checked under Spec).                         *)
(***************************************************************************)
Invoked(tool, p) == \E k \in 1..Len(trace) : trace[k] = << tool, p >>

\* the paths analyze was called on, in call order
AnalyzeCalls ==
    LET calls == SelectSeq(trace, LAMBDA e : e[1] = "analyze")
    IN  [k \in 1..Len(calls) |-> calls[k][2]]

PathsOf(rs) == [k \in 1..Len(rs) |-> rs[k].workflow_path]

HasRecord(rs, p) == \E k \in 1..Len(rs) : rs[k].workflow_path = p

\* C1: a file whose load / validation outcome is invalid makes analyze
\* return None without any adapter being invoked for it, and no list of
\* results ever holds a record for it.
C1_InvalidNeverScanned ==
    \A p \in Paths :
        loaded[p] = "invalid" =>
            /\ returned[p] = "none"
            /\ ~Invoked("radar", p)
            /\ ~Invoked("semgrep", p)
            /\ ~HasRecord(batch_results, p)
            /\ ~HasRecord(results, p)

\* C1 witness: a batch that ended with one file rejected by validation and
\* another one analyzed
C1_Witness ==
    /\ mode = "batch"
    /\ pc = "exit"
    /\ \E p, q \in Paths :
          /\ loaded[p] = "invalid" /\ returned[p] = "none"
          /\ returned[q] = "record" /\ HasRecord(results, q)

\* the analyze call on p is over
Ended(p) == returned[p] # "pending"

\* C2: once the adapters have been run on a valid workflow, analyze
\* returns an AnalysisResult whatever they returned: a failing adapter
\* contributes no finding, the other adapter's findings are kept as returned.
C2_RecordWhateverTheAdapters ==
    /\ \A p \in Paths :
          (loaded[p] = "valid" /\ Invoked("radar", p) /\ Ended(p)) => returned[p] = "record"
    /\ (pc = "loop" /\ cur # 0 /\ returned[cur] = "record") =>
          LET record == batch_results[Len(batch_results)]
          IN  /\ record.workflow_path = cur
              /\ record.agentic_radar_findings =
                    (IF radar_result.success THEN radar_result.findings ELSE EmptyFindings)
              /\ record.semgrep_findings =
                    (IF semgrep_result.success THEN semgrep_result.findings ELSE EmptyFindings)

\* the warnings validate_structure has for the document analyze holds
WorkflowWarnings == IF workflow = << >> THEN << >> ELSE validate_structure(workflow[1]).warnings

\* C3: a document whose validation gives warnings and no error goes
\* through metadata extraction and both adapters, and analyze returns an
\* AnalysisResult for it.
C3_WarningsNeverBlock ==
    (cur # 0 /\ loaded[cur] = "valid" /\ WorkflowWarnings # << >> /\ Ended(cur)) =>
        /\ returned[cur] = "record"
        /\ Invoked("radar", cur)
        /\ Invoked("semgrep", cur)

\* C4: every call of analyze ends by returning None or an AnalysisResult;
\* none ends by raising.
C4_NoErrorEscapes == \A p \in Paths : returned[p] # "raised"

\* C6: when a batch run has ended, analyze was called once per discovered
\* file, in enumeration order, the results are the discovered files that
\* passed validation, in that order, and an empty discovery invoked nothing.
C6_BatchCoversEveryFile ==
    (mode = "batch" /\ pc = "exit") =>
        /\ AnalyzeCalls = workflow_files
        /\ PathsOf(batch_results) = SelectSeq(workflow_files, LAMBDA p : loaded[p] = "valid")
        /\ (workflow_files = << >> => trace = << >>)

\* C9: the command ends with status 0 exactly when at least one workflow
\* was successfully analyzed, and with 1 otherwise.
C9_ExitStatus ==
    pc = "exit" =>
        /\ exit_status \in {0, 1}
        /\ exit_status = 0 <=> (\E p \in Paths : returned[p] = "record")

RadarFailure(run) ==
    CASE run.proc = "timeout" -> "timeout"
      [] run.proc = "notfound" -> "notfound"
      [] run.proc = "exit" /\ run.code # 0 -> "exit"
      [] OTHER -> "none"

\* how a run of the Semgrep subprocess failed, "none" when it exited with
\* 0 or 1 or was never started
SemgrepFailure(run) ==
    CASE ~run.rules -> "none"
      [] run.proc = "timeout" -> "timeout"
      [] run.proc = "notfound" -> "notfound"
      [] run.proc = "exit" /\ run.code \notin {0, 1} -> "exit"
      [] OTHER -> "none"

FailedEmpty(r) == ~r.success /\ r.findings = EmptyFindings /\ r.error # ""

\* C11: the radar adapter returns success only when the subprocess exited
\* with code 0 and the Semgrep adapter only when it exited with code 0 or 1;
\* after any other exit code, a timeout or a missing executable the adapter
\* returns no success, the empty list of findings and a non-empty message,
\* and the message differs from the message of every run that failed in
\* another of these three ways.
C11_SuccessClassification ==
    /\ ares # << >> =>
        /\ ares[1].success => arun.proc = "exit" /\ arun.code = 0
        /\ RadarFailure(arun) # "none" =>
            /\ FailedEmpty(ares[1])
            /\ \A other \in RadarRuns :
                  RadarFailure(other) \notin {"none", RadarFailure(arun)}
                      => AgenticRadarRun(other).error # ares[1].error
    /\ sres # << >> =>
        /\ sres[1].success => srun.proc = "exit" /\ srun.code \in {0, 1}
        /\ SemgrepFailure(srun) # "none" =>
            /\ FailedEmpty(sres[1])
            /\ \A other \in SemgrepRuns :
                  SemgrepFailure(other) \notin {"none", SemgrepFailure(srun)}
                      => SemgrepRun(other).error # sres[1].error

\* both adapters have returned on a subprocess that exited with code 1: the
\* radar adapter reports the failure, the Semgrep adapter succeeds
C11_Witness ==
    /\ ares # << >> /\ sres # << >>
    /\ arun.proc = "exit" /\ arun.code = 1 /\ arun.stderr # ""
    /\ FailedEmpty(ares[1])
    /\ srun.rules /\ srun.proc = "exit" /\ srun.code = 1
    /\ sres[1].success /\ sres[1].findings.items # << >>

(***************************************************************************)
(* C12, C13: the order of the adapters and the diagnostics of analyze      *)
(* (checked under Spec).                                                   *)
(***************************************************************************)
\* the positions of trace at which tool was invoked for p
Invocations(tool, p) == { k \in 1..Len(trace) : trace[k] = << tool, p >> }

\* C12: in a call of analyze on a valid workflow Semgrep is never invoked
\* before Agentic Radar has returned, neither adapter is invoked twice, and
\* once the call is over each adapter has been invoked exactly once,
\* whatever Agentic Radar returned.
C12_RadarThenSemgrepOnce ==
    \A p \in Paths :
        loaded[p] = "valid" =>
            /\ Cardinality(Invocations("radar", p)) <= 1
            /\ Cardinality(Invocations("semgrep", p)) <= 1
            /\ \A s \in Invocations("semgrep", p) :
                  \E r \in Invocations("radar", p) : r < s
            /\ Ended(p) =>
                  /\ Cardinality(Invocations("radar", p)) = 1
                  /\ Cardinality(Invocations("semgrep", p)) = 1

\* the diagnostics analyze has printed for the warnings of its document
WarningLines == Lines("WARNING", WorkflowWarnings)

\* C13: every warning validate_structure has for the document analyze
\* loaded is printed as a diagnostic, when the document is invalid (next to
\* its errors, before None is returned) and when it is valid (before the
\* adapters are run).
C13_WarningsAlwaysLogged ==
    (cur # 0 /\ workflow # << >> /\ returned[cur] # "raised"
        /\ (loaded[cur] = "invalid" \/ pc \in {"radar", "semgrep"} \/ Ended(cur))) =>
        \A k \in 1..Len(WarningLines) :
            \E j \in 1..Len(diag) : diag[j] = WarningLines[k]

====
